---- MODULE Spec2Model ----
(***************************************************************************)
(* A model of the differentiable operation kernels of frog_lang            *)
(* (src/froog/ops.py and its predecessor src/frog/ops.py).                 *)
(*                                                                         *)
(* A numeric buffer (numpy.ndarray) is a record [shape, data]: shape is    *)
(* the tuple of dimensions and data the elements in row-major (C) order,   *)
(* which is numpy's layout of a freshly built array, so that reshape keeps *)
(* data and changes shape only.  Elements are integers (or scaled          *)
(* integers where an operation divides): floating-point rounding is not    *)
(* modelled.  One operation call is modelled at a time: the context ctx    *)
(* of the call, the arguments of forward, what forward returned and what   *)
(* backward returned.                                                      *)
(***************************************************************************)
EXTENDS Integers, Sequences, FiniteSets, TLC

VARIABLES
  op,           \* the operation the context belongs to
  args,         \* the arguments of forward: the buffers, then the parameters
  ctx,          \* the operation context: saved_tensors and the call's parameters
  ret,          \* what forward returned (NoTensor before the call and after a raise)
  grad_output,  \* the gradient handed to backward
  grads,        \* what backward returned: one buffer per input
  pc,           \* "ready", "forwarded", "raised" (by forward), "done",
                \* "backward_raised", "accumulated"
  heap          \* the gradient buffers by identity, where the identity of a buffer
                \* matters (the section on gradient buffers): buffer k is heap[k]

vars == <<op, args, ctx, ret, grad_output, grads, pc, heap>>

-----------------------------------------------------------------------------
(* Bounds of the model *)

\* the largest height and width of an input image
MaxHW == 3
\* the largest dimension of a matrix, and of an operand of an elementwise operation
MaxDim == 2

-----------------------------------------------------------------------------
(* numpy buffers *)

\* the placeholder for "no buffer" (Python's None): no ndarray has an empty data
\* and an empty shape
NoTensor == [shape |-> <<>>, data |-> <<>>]

RECURSIVE Prod(_)
Prod(s) == IF s = <<>> THEN 1 ELSE Head(s) * Prod(Tail(s))

RECURSIVE SumTo(_, _)
\* F(0) + ... + F(n-1)
SumTo(F(_), n) == IF n <= 0 THEN 0 ELSE SumTo(F, n - 1) + F(n - 1)

Max2(a, b) == IF a >= b THEN a ELSE b
Min2(a, b) == IF a <= b THEN a ELSE b

\* row-major offset of element (n, c, y, x) of a 4-d buffer of shape s
Idx4(s, n, c, y, x) == ((n * s[2] + c) * s[3] + y) * s[4] + x

At4(t, n, c, y, x) == t.data[Idx4(t.shape, n, c, y, x) + 1]

\* the 4-d buffer of shape s whose element (n, c, y, x) is F(n, c, y, x)
Mk4(s, F(_, _, _, _)) ==
  [shape |-> s,
   data  |-> SubSeq([i \in 1..Prod(s) |->
                      F((i - 1) \div (s[2] * s[3] * s[4]),
                        ((i - 1) \div (s[3] * s[4])) % s[2],
                        ((i - 1) \div s[4]) % s[3],
                        (i - 1) % s[4])], 1, Prod(s))]

At2(m, i, j) == m.data[i * m.shape[2] + j + 1]

Mk2(r, c, F(_, _)) ==
  [shape |-> <<r, c>>,
   data  |-> SubSeq([i \in 1..(r * c) |-> F((i - 1) \div c, (i - 1) % c)], 1, r * c)]

\* numpy.zeros(s), numpy.zeros_like
Zeros(s) == [shape |-> s, data |-> [i \in 1..Prod(s) |-> 0]]
Ones(s) == [shape |-> s, data |-> [i \in 1..Prod(s) |-> 1]]
\* distinct non-zero elements 1, 2, 3, ...
Iota(s) == [shape |-> s, data |-> [i \in 1..Prod(s) |-> i]]
\* the buffers with a single 1
Units(s) == {[shape |-> s, data |-> [i \in 1..Prod(s) |-> IF i = k THEN 1 ELSE 0]] :
              k \in 1..Prod(s)}

\* a.reshape(s): the same elements in the same order under a new shape
Reshape(a, s) == [shape |-> s, data |-> a.data]

\* a.T of a 2-d buffer
Transpose(m) == Mk2(m.shape[2], m.shape[1], LAMBDA i, j : At2(m, j, i))

\* a.dot(b) of two 2-d buffers
Dot2(a, b) ==
  Mk2(a.shape[1], b.shape[2],
      LAMBDA i, j : SumTo(LAMBDA k : At2(a, i, k) * At2(b, k, j), a.shape[2]))

\* a[n0:n1, c0:c1, y0:y1, x0:x1]: Python clamps the ends of a slice to the axis
Slice4(a, n0, n1, c0, c1, y0, y1, x0, x1) ==
  LET cn0 == Min2(n0, a.shape[1])  cn1 == Max2(cn0, Min2(n1, a.shape[1]))
      cc0 == Min2(c0, a.shape[2])  cc1 == Max2(cc0, Min2(c1, a.shape[2]))
      cy0 == Min2(y0, a.shape[3])  cy1 == Max2(cy0, Min2(y1, a.shape[3]))
      cx0 == Min2(x0, a.shape[4])  cx1 == Max2(cx0, Min2(x1, a.shape[4]))
  IN Mk4(<<cn1 - cn0, cc1 - cc0, cy1 - cy0, cx1 - cx0>>,
         LAMBDA n, c, y, x : At4(a, cn0 + n, cc0 + c, cy0 + y, cx0 + x))

-----------------------------------------------------------------------------
(* The operation context *)

\* the context of a call: the keyword arguments of the call are its attributes
ConvCtx(stride, groups) == [saved_tensors |-> <<>>, stride |-> stride, groups |-> groups]
PoolCtx(kernel_size) == [saved_tensors |-> <<>>, kernel_size |-> kernel_size]
PlainCtx == [saved_tensors |-> <<>>]

\* Function.save_for_backward(*x): the buffers are appended to saved_tensors
save_for_backward(c, xs) == [c EXCEPT !.saved_tensors = @ \o xs]

\* a stride is an int or a pair of ints
IntStride(s) == [kind |-> "int", v |-> <<s>>]
PairStride(sy, sx) == [kind |-> "tuple", v |-> <<sy, sx>>]

-----------------------------------------------------------------------------
(* froog Conv2D: grouped, strided convolution (src/froog/ops.py) *)

\* a.reshape(r, -1): r rows, the row length inferred from the size
ReshapeRows(a, r) == [shape |-> <<r, Len(a.data) \div r>>, data |-> a.data]

\* if type(ctx.stride) == int: ctx.stride = (ctx.stride, ctx.stride)
NormStride(st) == IF st.kind = "int" THEN PairStride(st.v[1], st.v[1]) ELSE st

\* one output dimension: (x.shape[2]-(H-y_stride))//y_stride
ConvOutDimNoStride(n, k, s) == n - (k - 1)
ConvOutDim(n, k, s) == (n - (k - s)) \div s

\* the two assertions of forward
ConvAsserts(cin, cin_, cout, groups) ==
  /\ cin * groups = cin_
  /\ cout % groups = 0

\* tw of forward and backward before the transpose:
\* w[g*g_w_chans:(g*g_w_chans+g_w_chans)].reshape(g_w_chans, -1)
ConvTw(w, g, gwc) ==
  ReshapeRows(Slice4(w, g * gwc, g * gwc + gwc,
                     0, w.shape[2], 0, w.shape[3], 0, w.shape[4]), gwc)

\* tx = x[:, g*cin:(g*cin+cin), iY:iY+H, iX:iX+W].reshape(bs, -1)
ConvTxGroup0(x, w, g, iY, iX) ==
  ReshapeRows(Slice4(x, 0, x.shape[1], 0, w.shape[2],
                     iY, iY + w.shape[3], iX, iX + w.shape[4]), x.shape[1])
ConvTx(x, w, g, iY, iX) ==
  ReshapeRows(Slice4(x, 0, x.shape[1], g * w.shape[2], g * w.shape[2] + w.shape[2],
                     iY, iY + w.shape[3], iX, iX + w.shape[4]), x.shape[1])

\* ret[:, g*g_w_chans:(g*g_w_chans+g_w_chans), Y, X] += m
ConvRetAdd(r, m, g, gwc, Y, X) ==
  Mk4(r.shape, LAMBDA n, c, y, x :
        At4(r, n, c, y, x)
        + (IF y = Y /\ x = X /\ c >= g * gwc /\ c < g * gwc + gwc
           THEN At2(m, n, c - g * gwc) ELSE 0))

\* the body of forward's loop for one (g, Y, X)
ConvFwdStep(r, x, w, st, gwc, g, Y, X) ==
  ConvRetAdd(r, Dot2(ConvTx(x, w, g, Y * st[1], X * st[2]),
                     Transpose(ConvTw(w, g, gwc))), g, gwc, Y, X)

RECURSIVE ConvFwdLoop(_, _, _, _, _, _, _, _)
\* the first i iterations of: for g in range(groups): for Y in range(oy): for X in range(ox)
ConvFwdLoop(r, x, w, st, gwc, oy, ox, i) ==
  IF i = 0 THEN r
  ELSE ConvFwdStep(ConvFwdLoop(r, x, w, st, gwc, oy, ox, i - 1), x, w, st, gwc,
                   (i - 1) \div (oy * ox), ((i - 1) \div ox) % oy, (i - 1) % ox)

\* forward with save_for_backward moved above the assertions
Conv2D_forward_SaveFirst(c, x, w) ==
  LET c1   == save_for_backward([c EXCEPT !.stride = NormStride(c.stride)], <<x, w>>)
      st   == c1.stride.v
      oy   == ConvOutDim(x.shape[3], w.shape[3], st[1])
      ox   == ConvOutDim(x.shape[4], w.shape[4], st[2])
  IN IF ~ConvAsserts(w.shape[2], x.shape[2], w.shape[1], c1.groups)
     THEN [raised |-> TRUE, ctx |-> c1, ret |-> NoTensor]
     ELSE [raised |-> FALSE,
           ctx    |-> c1,
           ret    |-> ConvFwdLoop(Zeros(<<x.shape[1], w.shape[1], oy, ox>>), x, w, st,
                                  w.shape[1] \div c1.groups, oy, ox, c1.groups * oy * ox)]

\* Conv2D.forward(ctx, x, w): [raised, ctx, ret]
Conv2D_forward(c, x, w) ==
  LET c1   == [c EXCEPT !.stride = NormStride(c.stride)]
      cout == w.shape[1]
      cin  == w.shape[2]
      st   == c1.stride.v
      oy   == ConvOutDim(x.shape[3], w.shape[3], st[1])
      ox   == ConvOutDim(x.shape[4], w.shape[4], st[2])
      gwc  == cout \div c1.groups
  IN IF ~ConvAsserts(cin, x.shape[2], cout, c1.groups)
     THEN [raised |-> TRUE, ctx |-> c1, ret |-> NoTensor]
     ELSE [raised |-> FALSE,
           ctx    |-> save_for_backward(c1, <<x, w>>),
           ret    |-> ConvFwdLoop(Zeros(<<x.shape[1], cout, oy, ox>>), x, w, st, gwc,
                                  oy, ox, c1.groups * oy * ox)]

\* dw[g*g_w_chans:(g*g_w_chans+g_w_chans)] += m.reshape((g_w_chans,cin,H,W))
ConvDwAdd(dw, m, g, gwc) ==
  Mk4(dw.shape, LAMBDA o, c, y, x :
        At4(dw, o, c, y, x)
        + (IF o >= g * gwc /\ o < g * gwc + gwc
           THEN At4(Reshape(m, <<gwc, dw.shape[2], dw.shape[3], dw.shape[4]>>),
                    o - g * gwc, c, y, x)
           ELSE 0))

\* dx[:, g*cin:(g*cin+cin), iY:iY+H, iX:iX+W] += m.reshape(dx.shape[0], cin, H, W)
ConvDxAssign(dx, m, g, cin, H, W, iY, iX) ==
  Mk4(dx.shape, LAMBDA n, c, y, x :
        IF c >= g * cin /\ c < g * cin + cin
           /\ y >= iY /\ y < iY + H /\ x >= iX /\ x < iX + W
        THEN At4(Reshape(m, <<dx.shape[1], cin, H, W>>), n, c - g * cin, y - iY, x - iX)
        ELSE At4(dx, n, c, y, x))
ConvDxAdd(dx, m, g, cin, H, W, iY, iX) ==
  Mk4(dx.shape, LAMBDA n, c, y, x :
        At4(dx, n, c, y, x)
        + (IF c >= g * cin /\ c < g * cin + cin
              /\ y >= iY /\ y < iY + H /\ x >= iX /\ x < iX + W
           THEN At4(Reshape(m, <<dx.shape[1], cin, H, W>>),
                    n, c - g * cin, y - iY, x - iX)
           ELSE 0))

\* gg = grad_output[:, g*g_w_chans:(g*g_w_chans+g_w_chans), Y, X]
ConvGg(go, g, gwc, Y, X) ==
  Mk2(go.shape[1], gwc, LAMBDA n, j : At4(go, n, g * gwc + j, Y, X))

\* the body of backward's loop for one (g, Y, X), on the pair <<dx, dw>>
ConvBwdStep(d, go, x, w, st, gwc, g, Y, X) ==
  LET gg == ConvGg(go, g, gwc, Y, X)
      tx == ConvTx(x, w, g, Y * st[1], X * st[2])
      tw == ConvTw(w, g, gwc)
  IN <<ConvDxAdd(d[1], Dot2(gg, tw), g, w.shape[2], w.shape[3], w.shape[4],
                 Y * st[1], X * st[2]),
       ConvDwAdd(d[2], Dot2(Transpose(gg), tx), g, gwc)>>

RECURSIVE ConvBwdLoop(_, _, _, _, _, _, _)
ConvBwdLoop(d, go, x, w, st, gwc, i) ==
  IF i = 0 THEN d
  ELSE ConvBwdStep(ConvBwdLoop(d, go, x, w, st, gwc, i - 1), go, x, w, st, gwc,
                   (i - 1) \div (go.shape[3] * go.shape[4]),
                   ((i - 1) \div go.shape[4]) % go.shape[3],
                   (i - 1) % go.shape[4])

\* Conv2D.backward(ctx, grad_output): <<dx, dw>>
Conv2D_backward(c, go) ==
  LET x   == c.saved_tensors[1]
      w   == c.saved_tensors[2]
      gwc == w.shape[1] \div c.groups
  IN ConvBwdLoop(<<Zeros(x.shape), Zeros(w.shape)>>, go, x, w, c.stride.v, gwc,
                 c.groups * go.shape[3] * go.shape[4])


-----------------------------------------------------------------------------
(* Calls of froog Conv2D *)

Batches == 1..2
Groups == 1..2
Channels == 1..2
KernelSizes == 1..2
Strides == {IntStride(s) : s \in 1..2}
           \cup {PairStride(sy, sx) : sy \in 1..2, sx \in 1..2}

\* the gradients handed to backward: backward is linear in grad_output
GradInputs(s) == Units(s) \cup {Ones(s)}

ConvStart(x, w, stride, groups) ==
  /\ op = "conv2d"
  /\ args = <<x, w, stride, groups>>
  /\ ctx = ConvCtx(stride, groups)
  /\ ret = NoTensor
  /\ grad_output = NoTensor
  /\ grads = <<>>
  /\ pc = "ready"
  /\ heap = <<>>

\* every combination of shapes, matching or not, with K <= H_in; all elements 1
InitConvShapes ==
  \E bs \in Batches, g \in Groups, xc \in Channels, cout \in Channels,
     wc \in Channels, KH \in KernelSizes, KW \in KernelSizes, st \in Strides :
    \E Hin \in KH..MaxHW, Win \in KW..MaxHW :
      ConvStart(Ones(<<bs, xc, Hin, Win>>), Ones(<<cout, wc, KH, KW>>), st, g)

\* matching shapes: a batch of two MaxHW x (MaxHW-1) images with distinct elements under a
\* kernel that is a basis element or has distinct elements, and the 3 x 3 image
\* of ones of the scenario of spec section 8 under a kernel of ones
InitConv ==
  \E bs \in Batches, g \in Groups, xc \in Channels, cout \in Channels,
     KH \in KernelSizes, KW \in KernelSizes,
     st \in {IntStride(1), PairStride(1, 2), PairStride(2, 1)} :
    /\ xc % g = 0 /\ cout % g = 0 /\ xc = cout /\ KH + KW > 2
    /\ \/ \E w \in Units(<<cout, xc \div g, KH, KW>>)
                     \cup {Iota(<<cout, xc \div g, KH, KW>>)} :
            bs = 2 /\ ConvStart(Iota(<<bs, xc, MaxHW, MaxHW - 1>>), w, st, g)
       \/ ConvStart(Ones(<<bs, xc, 3, 3>>),
                    Ones(<<cout, xc \div g, KH, KW>>), st, g)

Conv2DForward ==
  /\ pc = "ready" /\ op = "conv2d"
  /\ LET r == Conv2D_forward(ctx, args[1], args[2])
     IN /\ ctx' = r.ctx
        /\ ret' = r.ret
        /\ pc' = IF r.raised THEN "raised" ELSE "forwarded"
  /\ UNCHANGED <<op, args, grad_output, grads, heap>>

Conv2DBackward ==
  /\ pc = "forwarded" /\ op = "conv2d"
  /\ \E go \in GradInputs(ret.shape) :
       /\ grad_output' = go
       /\ grads' = Conv2D_backward(ctx, go)
  /\ pc' = "done"
  /\ UNCHANGED <<op, args, ctx, ret, heap>>

NextConv == Conv2DForward \/ Conv2DBackward

SpecConvShapes == InitConvShapes /\ [][NextConv]_vars
SpecConv == InitConv /\ [][NextConv]_vars


-----------------------------------------------------------------------------
(* Properties of froog Conv2D *)

\* the stride a call was given, as the pair it means
GivenStride == IF args[3].kind = "int" THEN <<args[3].v[1], args[3].v[1]>> ELSE args[3].v

\* the requirements on a call: the kernel has cin/groups channels, groups divides cout
ConvCallSupported ==
  /\ args[2].shape[2] * args[4] = args[1].shape[2]
  /\ args[2].shape[1] % args[4] = 0

C8_ConvGroupsError ==
  (op = "conv2d" /\ pc # "ready"
     /\ (args[1].shape[2] % args[4] # 0 \/ args[2].shape[1] % args[4] # 0)) =>
    /\ pc = "raised"
    /\ ret = NoTensor
    /\ Len(ctx.saved_tensors) = 0

\* the kernel's channels match, and only cout is not divisible
C8_Witness ==
  /\ pc = "raised"
  /\ args[2].shape[2] * args[4] = args[1].shape[2]
  /\ args[2].shape[1] % args[4] # 0
  /\ Len(ctx.saved_tensors) = 0

\* the sum a cell of dx is claimed to be: over the output positions (Y, X) whose
\* receptive field covers (y, x) and the output channels of the cell's group
ConvDxSum(go, w, st, groups, n, c, y, x) ==
  LET cin == w.shape[2]
      gwc == w.shape[1] \div groups
      g   == c \div cin
  IN SumTo(LAMBDA Y : SumTo(LAMBDA X : SumTo(LAMBDA j :
         IF /\ y >= Y * st[1] /\ y < Y * st[1] + w.shape[3]
            /\ x >= X * st[2] /\ x < X * st[2] + w.shape[4]
         THEN At4(go, n, g * gwc + j, Y, X)
              * At4(w, g * gwc + j, c - g * cin, y - Y * st[1], x - X * st[2])
         ELSE 0, gwc), go.shape[4]), go.shape[3])

\* the sum a cell of dw is claimed to be: over the batch and the output positions
ConvDwSum(go, xx, w, st, groups, o, c, ky, kx) ==
  LET g == o \div (w.shape[1] \div groups)
  IN SumTo(LAMBDA n : SumTo(LAMBDA Y : SumTo(LAMBDA X :
         At4(go, n, o, Y, X)
         * At4(xx, n, g * w.shape[2] + c, Y * st[1] + ky, X * st[2] + kx),
         go.shape[4]), go.shape[3]), go.shape[1])

\* the scenario of spec section 8: a 3x3 image of ones under a 2x2 kernel of ones
ConvScenario ==
  /\ args[1] = Ones(<<1, 1, 3, 3>>) /\ args[2] = Ones(<<1, 1, 2, 2>>)
  /\ GivenStride = <<1, 1>> /\ args[4] = 1
  /\ grad_output = Ones(<<1, 1, 2, 2>>)

\* C2: backward sums the overlapping contributions: every cell of dx is the sum over
\* the covering output positions and the group's output channels of grad_output
\* times the kernel weight, every cell of dw the sum over batch and positions of
\* grad_output times the input; in the scenario forward is 4 everywhere, dw is 4
\* everywhere and dx is 1 at the corners, 2 on the edges and 4 at the centre.
C2_ConvBackwardSums ==
  (op = "conv2d" /\ pc = "done") =>
    /\ grads[1] = Mk4(args[1].shape, LAMBDA n, c, y, x :
                        ConvDxSum(grad_output, args[2], GivenStride, args[4], n, c, y, x))
    /\ grads[2] = Mk4(args[2].shape, LAMBDA o, c, ky, kx :
                        ConvDwSum(grad_output, args[1], args[2], GivenStride, args[4],
                                  o, c, ky, kx))
    /\ ConvScenario =>
         /\ ret.data = <<4, 4, 4, 4>>
         /\ grads[2].data = <<4, 4, 4, 4>>
         /\ grads[1].data = <<1, 2, 1, 2, 4, 2, 1, 2, 1>>

C2_Witness ==
  /\ pc = "done" /\ ConvScenario
  /\ grads[1].data = <<1, 2, 1, 2, 4, 2, 1, 2, 1>>

\* t with every channel (axis 1) outside group i of size n set to 0
MaskChannels(t, i, n) ==
  Mk4(t.shape, LAMBDA a, c, y, x : IF c \div n = i THEN At4(t, a, c, y, x) ELSE 0)
\* w with every kernel (axis 0) outside group i of size n set to 0
MaskKernels(t, i, n) ==
  Mk4(t.shape, LAMBDA o, c, y, x : IF o \div n = i THEN At4(t, o, c, y, x) ELSE 0)
\* the channels of group i of size n
GroupChannels(t, i, n) ==
  Slice4(t, 0, t.shape[1], i * n, i * n + n, 0, t.shape[3], 0, t.shape[4])
GroupKernels(t, i, n) ==
  Slice4(t, i * n, i * n + n, 0, t.shape[2], 0, t.shape[3], 0, t.shape[4])

\* C9: the groups are independent: the output channels, the dx channels and the dw
\* slices of group i are those of the call in which every input channel, kernel and
\* grad_output channel of the other groups is replaced by zero, so that no value of
\* another group has any effect on them.
C9_ConvGroupsIndependent ==
  (op = "conv2d" /\ pc \in {"forwarded", "done"} /\ args[4] > 1) =>
    \A i \in 0..(args[4] - 1) :
      LET cin == args[2].shape[2]
          gwc == args[2].shape[1] \div args[4]
          mx  == MaskChannels(args[1], i, cin)
          mw  == MaskKernels(args[2], i, gwc)
          f   == Conv2D_forward(ConvCtx(args[3], args[4]), mx, mw)
      IN /\ GroupChannels(ret, i, gwc) = GroupChannels(f.ret, i, gwc)
         /\ pc = "done" =>
              LET b == Conv2D_backward(f.ctx, MaskChannels(grad_output, i, gwc))
              IN /\ GroupChannels(grads[1], i, cin) = GroupChannels(b[1], i, cin)
                 /\ GroupKernels(grads[2], i, gwc) = GroupKernels(b[2], i, gwc)

\* two groups, every group with non-zero inputs, kernels and gradients
C9_Witness ==
  /\ pc = "done" /\ args[4] = 2
  /\ args[1] = Iota(args[1].shape) /\ args[2] = Iota(args[2].shape)
  /\ grad_output = Ones(ret.shape)
  /\ At4(ret, 0, 0, 0, 0) # At4(ret, 0, 1, 0, 0)


-----------------------------------------------------------------------------
(* Pooling (src/froog/ops.py).  A stack, the 5-d buffer that stack_for_pool    *)
(* returns, is the sequence of its 4-d slices along axis 0.  The elements of   *)
(* a buffer of AvgPool2D are exact fractions <<numerator, denominator>>.       *)

RECURSIVE Gcd(_, _)
Gcd(a, b) == IF b = 0 THEN a ELSE Gcd(b, a % b)

Abs(a) == IF a < 0 THEN -a ELSE a

\* the fraction n/d (d > 0) in lowest terms
Rat(n, d) == LET g == Gcd(Abs(n), d) IN <<n \div g, d \div g>>
RatAdd(p, q) == Rat(p[1] * q[2] + q[1] * p[2], p[2] * q[2])
\* q / k, a true division
RatDiv(q, k) == Rat(q[1], q[2] * k)

\* a buffer of integers as a buffer of fractions
ToRat(t) == [shape |-> t.shape, data |-> [i \in 1..Len(t.data) |-> <<t.data[i], 1>>]]

\* the size of the crop of an axis of n elements: (n//p)*p
PoolCrop(n, p) == (n \div p) * p

\* x[:, :, -my:, -mx:], the crop taken from the wrong end
PoolCroppedTail(x, my, mx) ==
  Slice4(x, 0, x.shape[1], 0, x.shape[2],
         x.shape[3] - my, x.shape[3], x.shape[4] - mx, x.shape[4])
\* cropped_x = x[:, :, :my, :mx]
PoolCropped(x, my, mx) == Slice4(x, 0, x.shape[1], 0, x.shape[2], 0, my, 0, mx)

\* the number of elements of range(Y, n, p)
StepCount(Y, n, p) == IF Y >= n THEN 0 ELSE (n - Y + p - 1) \div p

\* a[:, :, Y::py, X::px]
StridedSlice(a, Y, py, X, px) ==
  Mk4(<<a.shape[1], a.shape[2], StepCount(Y, a.shape[3], py), StepCount(X, a.shape[4], px)>>,
      LAMBDA n, c, y, x : At4(a, n, c, Y + y * py, X + x * px))

\* the stack built with the loops exchanged: for X ...: for Y ...
stack_for_pool_XMajor(x, pool_y, pool_x) ==
  LET cropped_x == PoolCropped(x, PoolCrop(x.shape[3], pool_y), PoolCrop(x.shape[4], pool_x))
  IN [k \in 1..(pool_y * pool_x) |->
        StridedSlice(cropped_x, (k - 1) % pool_y, pool_y, (k - 1) \div pool_y, pool_x)]

\* stack_for_pool(x, pool_y, pool_x): entry Y*pool_x+X is cropped_x[:, :, Y::pool_y, X::pool_x]
stack_for_pool(x, pool_y, pool_x) ==
  LET cropped_x == PoolCropped(x, PoolCrop(x.shape[3], pool_y), PoolCrop(x.shape[4], pool_x))
  IN [k \in 1..(pool_y * pool_x) |->
        StridedSlice(cropped_x, (k - 1) \div pool_x, pool_y, (k - 1) % pool_x, pool_x)]

RECURSIVE ArgMaxScan(_, _, _)
\* numpy.argmax of the sequence v: the first index of the maximum, from 1
ArgMaxScan(v, k, best) ==
  IF k > Len(v) THEN best
  ELSE ArgMaxScan(v, k + 1, IF v[k] > v[best] THEN k ELSE best)

\* the elements of the stack at data offset e, along axis 0
StackColumn(stack, e) == [k \in 1..Len(stack) |-> stack[k].data[e]]

\* np.argmax(stack, axis=0): indices from 0
ArgMax0(stack) ==
  [shape |-> stack[1].shape,
   data  |-> [e \in 1..Len(stack[1].data) |-> ArgMaxScan(StackColumn(stack, e), 2, 1) - 1]]

\* np.max(stack, axis=0)
Max0(stack) ==
  [shape |-> stack[1].shape,
   data  |-> [e \in 1..Len(stack[1].data) |->
               LET v == StackColumn(stack, e) IN v[ArgMaxScan(v, 2, 1)]]]

RECURSIVE RatSumSeq(_)
RatSumSeq(v) == IF v = <<>> THEN <<0, 1>> ELSE RatAdd(Head(v), RatSumSeq(Tail(v)))

\* np.mean(stack, axis=0)
Mean0(stack) ==
  [shape |-> stack[1].shape,
   data  |-> [e \in 1..Len(stack[1].data) |->
               RatDiv(RatSumSeq(StackColumn(stack, e)), Len(stack))]]

\* ret[:, :, Y:max_y:py, X:max_x:px] = level
PoolAssign(r, level, Y, X, max_y, max_x, py, px) ==
  Mk4(r.shape, LAMBDA n, c, y, x :
        IF /\ y >= Y /\ y < max_y /\ (y - Y) % py = 0
           /\ x >= X /\ x < max_x /\ (x - X) % px = 0
        THEN At4(level, n, c, (y - Y) \div py, (x - X) \div px)
        ELSE At4(r, n, c, y, x))

RECURSIVE UnstackLoop(_, _, _, _, _, _)
\* the first i iterations of: for Y in range(py): for X in range(px); levels[k+1] is
\* fxn(k), and the first iteration starts from zeros
UnstackLoop(levels, zero, s, py, px, i) ==
  IF i = 0 THEN zero
  ELSE PoolAssign(UnstackLoop(levels, zero, s, py, px, i - 1),
                  levels[((i - 1) \div px) * px + ((i - 1) % px) + 1],
                  (i - 1) \div px, (i - 1) % px,
                  PoolCrop(s[3], py), PoolCrop(s[4], px), py, px)

\* unstack_for_pool(fxn, s, py, px), fxn given by its values levels
unstack_for_pool(levels, s, py, px) ==
  UnstackLoop(levels, Zeros(s), s, py, px, py * px)

\* MaxPool2D.forward(ctx, x): [ctx, ret]
MaxPool2D_forward(c, x) ==
  LET stack == stack_for_pool(x, c.kernel_size[1], c.kernel_size[2])
  IN [ctx |-> save_for_backward(c, <<ArgMax0(stack), x.shape>>),
      ret |-> Max0(stack)]

\* grad_output * (idxs == idx)
MaxPoolLevel(go, idxs, idx) ==
  [shape |-> go.shape,
   data  |-> [e \in 1..Len(go.data) |-> go.data[e] * (IF idxs.data[e] = idx THEN 1 ELSE 0)]]

\* MaxPool2D.backward(ctx, grad_output)
MaxPool2D_backward(c, go) ==
  unstack_for_pool([k \in 1..(c.kernel_size[1] * c.kernel_size[2]) |->
                      MaxPoolLevel(go, c.saved_tensors[1], k - 1)],
                   c.saved_tensors[2], c.kernel_size[1], c.kernel_size[2])

\* AvgPool2D.forward(ctx, x): [ctx, ret]
AvgPool2D_forward(c, x) ==
  LET stack == stack_for_pool(x, c.kernel_size[1], c.kernel_size[2])
  IN [ctx |-> save_for_backward(c, <<x.shape>>), ret |-> Mean0(stack)]

\* grad_output / py, the division by px forgotten
AvgPoolLevelPyOnly(go, py, px) ==
  [shape |-> go.shape,
   data  |-> [e \in 1..Len(go.data) |-> RatDiv(go.data[e], py)]]

\* grad_output / py / px
AvgPoolLevel(go, py, px) ==
  [shape |-> go.shape,
   data  |-> [e \in 1..Len(go.data) |-> RatDiv(RatDiv(go.data[e], py), px)]]

RECURSIVE AvgBwdLoop(_, _, _, _, _, _)
AvgBwdLoop(r, level, s, py, px, i) ==
  IF i = 0 THEN r
  ELSE PoolAssign(AvgBwdLoop(r, level, s, py, px, i - 1), level,
                  (i - 1) \div px, (i - 1) % px,
                  PoolCrop(s[3], py), PoolCrop(s[4], px), py, px)

\* AvgPool2D.backward(ctx, grad_output)
AvgPool2D_backward(c, go) ==
  LET s  == c.saved_tensors[1]
      py == c.kernel_size[1]
      px == c.kernel_size[2]
  IN AvgBwdLoop(ToRat(Zeros(s)), AvgPoolLevel(go, py, px), s, py, px, py * px)


-----------------------------------------------------------------------------
(* Calls of MaxPool2D and AvgPool2D *)

PoolSizes == 1..3

\* the buffers with a single -1
NegUnits(s) == {[shape |-> s, data |-> [i \in 1..Prod(s) |-> IF i = k THEN -1 ELSE 0]] :
                 k \in 1..Prod(s)}
\* distinct elements in decreasing order
RevIota(s) == [shape |-> s, data |-> [i \in 1..Prod(s) |-> Prod(s) + 1 - i]]

\* images whose maximum is at any one place, tied everywhere, tied everywhere but
\* at one place, increasing and decreasing
PoolInputs(s) == Units(s) \cup NegUnits(s) \cup {Ones(s), Iota(s), RevIota(s)}

PoolStart(o, x, ks) ==
  /\ op = o
  /\ args = <<x, ks>>
  /\ ctx = PoolCtx(ks)
  /\ ret = NoTensor
  /\ grad_output = NoTensor
  /\ grads = <<>>
  /\ pc = "ready"
  /\ heap = <<>>

InitPool ==
  \E H \in 1..MaxHW, W \in 1..MaxHW, py \in PoolSizes, px \in PoolSizes :
    \/ \E x \in PoolInputs(<<1, 1, H, W>>) \cup {Iota(<<2, 2, H, W>>), RevIota(<<2, 2, H, W>>)} :
         PoolStart("max_pool2d", x, <<py, px>>)
    \/ \E x \in PoolInputs(<<1, 1, H, W>>) \cup {Iota(<<2, 2, H, W>>), RevIota(<<2, 2, H, W>>)} :
         PoolStart("avg_pool2d", ToRat(x), <<py, px>>)

MaxPool2DForward ==
  /\ pc = "ready" /\ op = "max_pool2d"
  /\ LET r == MaxPool2D_forward(ctx, args[1])
     IN ctx' = r.ctx /\ ret' = r.ret
  /\ pc' = "forwarded"
  /\ UNCHANGED <<op, args, grad_output, grads, heap>>

MaxPool2DBackward ==
  /\ pc = "forwarded" /\ op = "max_pool2d"
  /\ \E go \in GradInputs(ret.shape) \cup {Iota(ret.shape)} :
       /\ grad_output' = go
       /\ grads' = <<MaxPool2D_backward(ctx, go)>>
  /\ pc' = "done"
  /\ UNCHANGED <<op, args, ctx, ret, heap>>

AvgPool2DForward ==
  /\ pc = "ready" /\ op = "avg_pool2d"
  /\ LET r == AvgPool2D_forward(ctx, args[1])
     IN ctx' = r.ctx /\ ret' = r.ret
  /\ pc' = "forwarded"
  /\ UNCHANGED <<op, args, grad_output, grads, heap>>

AvgPool2DBackward ==
  /\ pc = "forwarded" /\ op = "avg_pool2d"
  /\ \E go \in GradInputs(ret.shape) \cup {Iota(ret.shape)} :
       /\ grad_output' = ToRat(go)
       /\ grads' = <<AvgPool2D_backward(ctx, ToRat(go))>>
  /\ pc' = "done"
  /\ UNCHANGED <<op, args, ctx, ret, heap>>

NextPool ==
  \/ MaxPool2DForward
  \/ MaxPool2DBackward
  \/ AvgPool2DForward
  \/ AvgPool2DBackward

SpecPool == InitPool /\ [][NextPool]_vars


-----------------------------------------------------------------------------
(* Properties of pooling *)

\* the positions (dy, dx) inside a py x px window
WindowCells(py, px) == (0..(py - 1)) \X (0..(px - 1))

\* the cell of window (Y, X) of channel (n, c) of x that holds the window's maximum
\* and comes first in row-major order
FirstMaxCell(x, n, c, Y, X, py, px) ==
  CHOOSE d \in WindowCells(py, px) :
    \A e \in WindowCells(py, px) :
      LET vd == At4(x, n, c, Y * py + d[1], X * px + d[2])
          ve == At4(x, n, c, Y * py + e[1], X * px + e[2])
      IN /\ ve <= vd
         /\ ve = vd => d[1] * px + d[2] <= e[1] * px + e[2]

RECURSIVE RatSumOver(_, _)
\* the sum of f[e] over the finite set S
RatSumOver(f, S) ==
  IF S = {} THEN <<0, 1>>
  ELSE LET e == CHOOSE e \in S : TRUE IN RatAdd(f[e], RatSumOver(f, S \ {e}))

\* C6: AvgPool2D.forward returns for each window the mean of its py*px values, and
\* backward gives every position of a window grad_output/(py*px), the values of a
\* window adding up to grad_output.
C6_AvgPool ==
  (op = "avg_pool2d" /\ pc \in {"forwarded", "done"}) =>
    LET x == args[1]  py == args[2][1]  px == args[2][2]
    IN \A n \in 0..(x.shape[1] - 1), c \in 0..(x.shape[2] - 1),
          Y \in 0..(x.shape[3] \div py - 1), X \in 0..(x.shape[4] \div px - 1) :
         /\ At4(ret, n, c, Y, X)
              = RatDiv(RatSumOver([d \in WindowCells(py, px) |->
                                     At4(x, n, c, Y * py + d[1], X * px + d[2])],
                                  WindowCells(py, px)), py * px)
         /\ pc = "done" =>
              /\ \A d \in WindowCells(py, px) :
                   At4(grads[1], n, c, Y * py + d[1], X * px + d[2])
                     = RatDiv(At4(grad_output, n, c, Y, X), py * px)
              /\ RatSumOver([d \in WindowCells(py, px) |->
                               At4(grads[1], n, c, Y * py + d[1], X * px + d[2])],
                            WindowCells(py, px)) = At4(grad_output, n, c, Y, X)

\* a 3 x 2 window whose mean and whose share of the gradient are not integers
C6_Witness ==
  /\ op = "avg_pool2d" /\ pc = "done"
  /\ args[2] = <<3, 2>> /\ args[1] = ToRat(Iota(<<1, 1, 3, 3>>))
  /\ ret.data = <<<<9, 2>>>>
  /\ grad_output.data = <<<<1, 1>>>>
  /\ At4(grads[1], 0, 0, 2, 1) = <<1, 6>>

\* x with every element outside the crop (row >= my or column >= mx) replaced by v
FillLeftover(x, my, mx, v) ==
  Mk4(x.shape, LAMBDA n, c, y, r : IF y >= my \/ r >= mx THEN v ELSE At4(x, n, c, y, r))

\* C7: the pooled output of MaxPool2D and AvgPool2D has spatial size (H//py) x (W//px);
\* the rows >= (H//py)*py and columns >= (W//px)*px have no effect on the output (the
\* output is that of the input with these elements replaced by any other value), and
\* the gradient has the input's shape, with zero at every such position.
C7_PoolLeftover ==
  (op \in {"max_pool2d", "avg_pool2d"} /\ pc \in {"forwarded", "done"}) =>
    LET x  == args[1]
        my == (x.shape[3] \div args[2][1]) * args[2][1]
        mx == (x.shape[4] \div args[2][2]) * args[2][2]
    IN /\ ret.shape = <<x.shape[1], x.shape[2],
                        x.shape[3] \div args[2][1], x.shape[4] \div args[2][2]>>
       /\ Len(ret.data) = Prod(ret.shape)
       /\ (op = "max_pool2d" /\ pc = "forwarded") =>
            \A v \in {-100, 0, 100} :
              MaxPool2D_forward(PoolCtx(args[2]), FillLeftover(x, my, mx, v)).ret = ret
       /\ (op = "avg_pool2d" /\ pc = "forwarded") =>
            \A v \in {-100, 0, 100} :
              AvgPool2D_forward(PoolCtx(args[2]), FillLeftover(x, my, mx, <<v, 1>>)).ret = ret
       /\ pc = "done" =>
            /\ grads[1].shape = x.shape
            /\ Len(grads[1].data) = Prod(x.shape)
            /\ \A n \in 0..(x.shape[1] - 1), c \in 0..(x.shape[2] - 1),
                  y \in 0..(x.shape[3] - 1), r \in 0..(x.shape[4] - 1) :
                 (y >= my \/ r >= mx) =>
                   At4(grads[1], n, c, y, r) = (IF op = "max_pool2d" THEN 0 ELSE <<0, 1>>)

\* the largest element of a 3 x 3 image is in its leftover row and column
C7_Witness ==
  /\ op = "max_pool2d" /\ pc = "done"
  /\ args[2] = <<2, 2>> /\ args[1] = Iota(<<1, 1, 3, 3>>)
  /\ ret.shape = <<1, 1, 1, 1>> /\ ret.data = <<5>>
  /\ grad_output = Ones(<<1, 1, 1, 1>>)
  /\ grads[1].data = <<0, 0, 0, 0, 1, 0, 0, 0, 0>>


-----------------------------------------------------------------------------
(* Dot (src/froog/ops.py and src/frog/ops.py) *)

\* Dot.forward(ctx, input, weight), the same in both files: [ctx, ret]
Dot_forward(c, input, weight) ==
  [ctx |-> save_for_backward(c, <<input, weight>>), ret |-> Dot2(input, weight)]

\* froog Dot.backward: <<grad_input, grad_weight>>
Dot_backward(c, go) ==
  LET input == c.saved_tensors[1]  weight == c.saved_tensors[2]
  IN <<Dot2(go, Transpose(weight)), Dot2(Transpose(input), go)>>

\* grad_weight of frog without its last transpose
frog_Dot_backward_NoT(c, go) ==
  LET input == c.saved_tensors[1]  weight == c.saved_tensors[2]
  IN <<Dot2(go, Transpose(weight)), Dot2(Transpose(go), input)>>

\* frog Dot.backward: grad_weight = grad_output.T.dot(input).T
frog_Dot_backward(c, go) ==
  LET input == c.saved_tensors[1]  weight == c.saved_tensors[2]
  IN <<Dot2(go, Transpose(weight)), Transpose(Dot2(Transpose(go), input))>>

MatInputs(r, c) == Units(<<r, c>>) \cup {Iota(<<r, c>>)}

InitDot ==
  \E o \in {"froog_dot", "frog_dot"}, n \in 1..MaxDim, k \in 1..MaxDim, mm \in 1..MaxDim :
    \E x \in MatInputs(n, k), w \in MatInputs(k, mm) :
      /\ op = o
      /\ args = <<x, w>>
      /\ ctx = PlainCtx
      /\ ret = NoTensor
      /\ grad_output = NoTensor
      /\ grads = <<>>
      /\ pc = "ready"
      /\ heap = <<>>

DotForward ==
  /\ pc = "ready" /\ op \in {"froog_dot", "frog_dot"}
  /\ LET r == Dot_forward(ctx, args[1], args[2])
     IN ctx' = r.ctx /\ ret' = r.ret
  /\ pc' = "forwarded"
  /\ UNCHANGED <<op, args, grad_output, grads, heap>>

DotBackward ==
  /\ pc = "forwarded" /\ op = "froog_dot"
  /\ \E go \in MatInputs(ret.shape[1], ret.shape[2]) :
       grad_output' = go /\ grads' = Dot_backward(ctx, go)
  /\ pc' = "done"
  /\ UNCHANGED <<op, args, ctx, ret, heap>>

frogDotBackward ==
  /\ pc = "forwarded" /\ op = "frog_dot"
  /\ \E go \in MatInputs(ret.shape[1], ret.shape[2]) :
       grad_output' = go /\ grads' = frog_Dot_backward(ctx, go)
  /\ pc' = "done"
  /\ UNCHANGED <<op, args, ctx, ret, heap>>

NextDot == DotForward \/ DotBackward \/ frogDotBackward

SpecDot == InitDot /\ [][NextDot]_vars

\* C10: for x (n, k), w (k, m) and grad_output (n, m), Dot.backward returns
\* grad_input = grad_output . w^T of shape (n, k) and grad_weight = x^T . grad_output
\* of shape (k, m), in frog and in froog, which return equal results.
C10_DotBackward ==
  (op \in {"froog_dot", "frog_dot"} /\ pc = "done") =>
    LET x == args[1]  w == args[2]
    IN /\ grads[1] = Mk2(x.shape[1], x.shape[2], LAMBDA i, j :
                       SumTo(LAMBDA l : At2(grad_output, i, l) * At2(w, j, l), w.shape[2]))
       /\ grads[2] = Mk2(w.shape[1], w.shape[2], LAMBDA a, b :
                       SumTo(LAMBDA i : At2(x, i, a) * At2(grad_output, i, b), x.shape[1]))
       /\ frog_Dot_backward(ctx, grad_output) = Dot_backward(ctx, grad_output)

\* frog's backward on matrices that are not square
C10_Witness ==
  /\ op = "frog_dot" /\ pc = "done"
  /\ args[1] = Iota(<<1, 2>>) /\ args[2] = Iota(<<2, 2>>)
  /\ grad_output = Iota(<<1, 2>>)
  /\ grads[2] = [shape |-> <<2, 2>>, data |-> <<1, 2, 2, 4>>]
  /\ grads[1] = [shape |-> <<1, 2>>, data |-> <<5, 11>>]


-----------------------------------------------------------------------------
(* The elementwise binary operations Add, Sub, Mul, Pow (src/froog/ops.py) and *)
(* Add, Mul (src/frog/ops.py).  Their forward is numpy's +, -, *, ** on the    *)
(* two buffers, which broadcasts: the shapes are aligned at their last axis,   *)
(* an axis of size 1 is repeated, and only shapes that cannot be aligned       *)
(* raise a ValueError.  Operands have one or two axes.                         *)

\* a shape of one or two axes as a shape of two axes
Pad2(s) == IF Len(s) = 1 THEN <<1, s[1]>> ELSE s

\* whether numpy can broadcast the shapes sx and sy together
BroadcastOk(sx, sy) ==
  \A i \in 1..2 : Pad2(sx)[i] = Pad2(sy)[i] \/ Pad2(sx)[i] = 1 \/ Pad2(sy)[i] = 1

\* the shape of the result of a broadcast
BroadcastShape(sx, sy) ==
  LET r == Max2(Pad2(sx)[1], Pad2(sy)[1])
      c == Max2(Pad2(sx)[2], Pad2(sy)[2])
  IN IF Len(sx) = 1 /\ Len(sy) = 1 THEN <<c>> ELSE <<r, c>>

\* the element of t that numpy reads for element (i, j) of the result
BroadcastAt(t, i, j) ==
  LET ts == Pad2(t.shape)
  IN t.data[(IF ts[1] = 1 THEN 0 ELSE i) * ts[2] + (IF ts[2] = 1 THEN 0 ELSE j) + 1]

RECURSIVE IntPow(_, _)
IntPow(a, b) == IF b <= 0 THEN 1 ELSE a * IntPow(a, b - 1)

\* the scalar operation of each ufunc
Scalar(f, a, b) ==
  CASE f = "add" -> a + b
    [] f = "sub" -> a - b
    [] f = "mul" -> a * b
    [] f = "pow" -> IntPow(a, b)

\* numpy's x + y, x - y, x * y, x ** y: [raised, ret]
Ufunc(f, x, y) ==
  IF ~BroadcastOk(x.shape, y.shape) THEN [raised |-> TRUE, ret |-> NoTensor]
  ELSE LET s == BroadcastShape(x.shape, y.shape)
           C == Pad2(s)[2]
       IN [raised |-> FALSE,
           ret |-> [shape |-> s,
                    data  |-> [e \in 1..Prod(s) |->
                                Scalar(f, BroadcastAt(x, (e - 1) \div C, (e - 1) % C),
                                          BroadcastAt(y, (e - 1) \div C, (e - 1) % C))]]]

\* -a
Neg(a) == [shape |-> a.shape, data |-> [e \in 1..Len(a.data) |-> -a.data[e]]]

\* Add.forward and Sub.forward save nothing; Mul.forward and Pow.forward save (x, y)
\* before they compute
Binary_forward(f, c, x, y) ==
  LET r == Ufunc(f, x, y)
  IN [raised |-> r.raised,
      ctx    |-> IF f \in {"mul", "pow"} THEN save_for_backward(c, <<x, y>>) ELSE c,
      ret    |-> r.ret]

\* Add.backward, Sub.backward and Mul.backward: [raised, grads]
Binary_backward(f, c, go) ==
  CASE f = "add" -> [raised |-> FALSE, grads |-> <<go, go>>]
    [] f = "sub" -> [raised |-> FALSE, grads |-> <<go, Neg(go)>>]
    [] f = "mul" ->
         LET gx == Ufunc("mul", c.saved_tensors[2], go)
             gy == Ufunc("mul", c.saved_tensors[1], go)
         IN [raised |-> gx.raised \/ gy.raised, grads |-> <<gx.ret, gy.ret>>]

\* the operation of an op name: frog's Add and Mul are froog's
UfuncOf(o) ==
  CASE o \in {"add", "frog_add"} -> "add"
    [] o = "sub" -> "sub"
    [] o \in {"mul", "frog_mul"} -> "mul"
    [] o = "pow" -> "pow"

BinaryOps == {"add", "sub", "mul", "pow", "frog_add", "frog_mul"}

\* the shapes of the operands: one axis or two
ElemShapes == {<<c>> : c \in 1..(MaxDim + 1)}
              \cup {<<r, c>> : r \in 1..MaxDim, c \in 1..(MaxDim + 1)}

InitBinary ==
  \E o \in BinaryOps, sx \in ElemShapes, sy \in ElemShapes :
    \E x \in {Iota(sx), Ones(sx)} :
      /\ op = o
      /\ args = <<x, Iota(sy)>>
      /\ ctx = PlainCtx
      /\ ret = NoTensor
      /\ grad_output = NoTensor
      /\ grads = <<>>
      /\ pc = "ready"
      /\ heap = <<>>

BinaryForward ==
  /\ pc = "ready" /\ op \in BinaryOps
  /\ LET r == Binary_forward(UfuncOf(op), ctx, args[1], args[2])
     IN /\ ctx' = r.ctx
        /\ ret' = r.ret
        /\ pc' = IF r.raised THEN "raised" ELSE "forwarded"
  /\ UNCHANGED <<op, args, grad_output, grads, heap>>

\* Pow.backward takes logarithms and is not modelled
BinaryBackward ==
  /\ pc = "forwarded" /\ op \in BinaryOps \ {"pow"}
  /\ \E go \in {Ones(ret.shape), Iota(ret.shape)} :
       LET b == Binary_backward(UfuncOf(op), ctx, go)
       IN /\ grad_output' = go
          /\ grads' = b.grads
          /\ pc' = IF b.raised THEN "raised" ELSE "done"
  /\ UNCHANGED <<op, args, ctx, ret, heap>>

NextBinary == BinaryForward \/ BinaryBackward

SpecBinary == InitBinary /\ [][NextBinary]_vars

\* C4: Add, Sub, Mul and Pow accept only operands of identical shape: a forward call
\* whose operand shapes differ, also when they differ only in an axis of size 1,
\* fails with a shape error and returns no result; nothing is broadcast.
C4_NoBroadcasting ==
  (op \in BinaryOps /\ pc # "ready" /\ args[1].shape # args[2].shape) =>
    /\ pc = "raised"
    /\ ret = NoTensor


-----------------------------------------------------------------------------
(* Sigmoid (src/froog/ops.py).  A float is a fixed-point number, an integer    *)
(* count of 1/Scale; the inputs are whole numbers, where np.exp is tabulated.  *)

Scale == 1000

\* a * b and a / b on fixed-point numbers
FMul(a, b) == (a * b) \div Scale
FDiv(a, b) == (a * Scale) \div b

\* np.exp at -2, -1, 0, 1, 2
NpExp(v) ==
  CASE v = -2 * Scale -> 135
    [] v = -Scale     -> 368
    [] v = 0          -> 1000
    [] v = Scale      -> 2718
    [] v = 2 * Scale  -> 7389

\* Sigmoid.forward(ctx, input): [ctx, ret]
Sigmoid_forward(c, input) ==
  [ctx |-> save_for_backward(c, <<input>>),
   ret |-> [shape |-> input.shape,
            data  |-> [e \in 1..Len(input.data) |->
                        FDiv(Scale, Scale + NpExp(-input.data[e]))]]]

\* Sigmoid.backward(ctx, grad_output): what it calls ret is saved_tensors[0]
Sigmoid_backward(c, go) ==
  LET saved == c.saved_tensors[1]
  IN [shape |-> go.shape,
      data  |-> [e \in 1..Len(go.data) |->
                  FMul(go.data[e], FMul(saved.data[e], Scale - saved.data[e]))]]

\* the buffers of shape s with elements in -2.0, -1.0, 0.0, 1.0, 2.0
SigmoidInputs(s) ==
  {[shape |-> s, data |-> d] : d \in [1..Prod(s) -> {k * Scale : k \in -2..2}]}

InitSigmoid ==
  \E n \in 1..MaxDim : \E x \in SigmoidInputs(<<n>>) :
    /\ op = "sigmoid"
    /\ args = <<x>>
    /\ ctx = PlainCtx
    /\ ret = NoTensor
    /\ grad_output = NoTensor
    /\ grads = <<>>
    /\ pc = "ready"
    /\ heap = <<>>

SigmoidForward ==
  /\ pc = "ready" /\ op = "sigmoid"
  /\ LET r == Sigmoid_forward(ctx, args[1])
     IN ctx' = r.ctx /\ ret' = r.ret
  /\ pc' = "forwarded"
  /\ UNCHANGED <<op, args, grad_output, grads, heap>>

SigmoidBackward ==
  /\ pc = "forwarded" /\ op = "sigmoid"
  /\ \E g \in {Scale, 2 * Scale} :
       LET go == [shape |-> ret.shape, data |-> [e \in 1..Len(ret.data) |-> g]]
       IN grad_output' = go /\ grads' = <<Sigmoid_backward(ctx, go)>>
  /\ pc' = "done"
  /\ UNCHANGED <<op, args, ctx, ret, heap>>

NextSigmoid == SigmoidForward \/ SigmoidBackward

SpecSigmoid == InitSigmoid /\ [][NextSigmoid]_vars

\* C3: Sigmoid.forward saves its output ret = 1/(1+exp(-x)) in the context, and
\* Sigmoid.backward returns grad_output * ret * (1 - ret) computed from that saved
\* output: what backward reads from the context is what forward returned, not x.
C3_SigmoidSavesOutput ==
  (op = "sigmoid" /\ pc \in {"forwarded", "done"}) =>
    /\ ret.data = [e \in 1..Len(args[1].data) |->
                    FDiv(Scale, Scale + NpExp(-args[1].data[e]))]
    /\ ctx.saved_tensors = <<ret>>
    /\ pc = "done" =>
         grads[1].data = [e \in 1..Len(ret.data) |->
                           FMul(grad_output.data[e],
                                FMul(ret.data[e], Scale - ret.data[e]))]

-----------------------------------------------------------------------------
(* ReLU (src/froog/ops.py and src/frog/ops.py) *)

\* ReLU.forward(ctx, input) of both files: [ctx, ret], ret = np.maximum(input, 0)
ReLU_forward(c, input) ==
  [ctx |-> save_for_backward(c, <<input>>),
   ret |-> [shape |-> input.shape,
            data  |-> [e \in 1..Len(input.data) |-> Max2(input.data[e], 0)]]]

\* (input >= 0) as a factor: numpy multiplies by True as 1 and by False as 0
GeZero(v) == IF v >= 0 THEN 1 ELSE 0

\* froog ReLU.backward(ctx, grad_output): grad_output * (input >= 0)
ReLU_backward(c, go) ==
  LET input == c.saved_tensors[1]
  IN [shape |-> go.shape,
      data  |-> [e \in 1..Len(go.data) |-> go.data[e] * GeZero(input.data[e])]]

\* frog ReLU.backward with the mask input <= 0
frog_ReLU_backward_ZeroAtZero(c, go) ==
  LET input == c.saved_tensors[1]
  IN [shape |-> go.shape,
      data  |-> [e \in 1..Len(go.data) |->
                  IF input.data[e] <= 0 THEN 0 ELSE go.data[e]]]

\* frog ReLU.backward(ctx, grad_output): grad_input = grad_output.copy();
\* grad_input[input < 0] = 0
frog_ReLU_backward(c, go) ==
  LET input == c.saved_tensors[1]
  IN [shape |-> go.shape,
      data  |-> [e \in 1..Len(go.data) |->
                  IF input.data[e] < 0 THEN 0 ELSE go.data[e]]]

\* the buffers of shape s with elements in vals
BuffersOver(s, vals) == {[shape |-> s, data |-> d] : d \in [1..Prod(s) -> vals]}

InitReLU ==
  \E o \in {"relu", "frog_relu"} : \E n \in 1..MaxDim :
    \E x \in BuffersOver(<<n>>, -2..2) :
      /\ op = o
      /\ args = <<x>>
      /\ ctx = PlainCtx
      /\ ret = NoTensor
      /\ grad_output = NoTensor
      /\ grads = <<>>
      /\ pc = "ready"
      /\ heap = <<>>

ReLUForward ==
  /\ pc = "ready" /\ op \in {"relu", "frog_relu"}
  /\ LET r == ReLU_forward(ctx, args[1])
     IN ctx' = r.ctx /\ ret' = r.ret
  /\ pc' = "forwarded"
  /\ UNCHANGED <<op, args, grad_output, grads, heap>>

ReLUBackward ==
  /\ pc = "forwarded" /\ op = "relu"
  /\ \E go \in BuffersOver(ret.shape, {-1, 2}) :
       grad_output' = go /\ grads' = <<ReLU_backward(ctx, go)>>
  /\ pc' = "done"
  /\ UNCHANGED <<op, args, ctx, ret, heap>>

frogReLUBackward ==
  /\ pc = "forwarded" /\ op = "frog_relu"
  /\ \E go \in BuffersOver(ret.shape, {-1, 2}) :
       grad_output' = go /\ grads' = <<frog_ReLU_backward(ctx, go)>>
  /\ pc' = "done"
  /\ UNCHANGED <<op, args, ctx, ret, heap>>

NextReLU == ReLUForward \/ ReLUBackward \/ frogReLUBackward

SpecReLU == InitReLU /\ [][NextReLU]_vars

\* C11: ReLU.backward of both files returns, element by element, grad_output
\* where the forward input x satisfies x >= 0 and zero where x < 0; at x = 0 the
\* gradient is passed through unchanged.
C11_ReLUBackward ==
  (op \in {"relu", "frog_relu"} /\ pc = "done") =>
    /\ grads[1].shape = grad_output.shape
    /\ Len(grads[1].data) = Len(args[1].data)
    /\ \A e \in 1..Len(args[1].data) :
         /\ args[1].data[e] >= 0 => grads[1].data[e] = grad_output.data[e]
         /\ args[1].data[e] < 0 => grads[1].data[e] = 0

\* frog's backward has run on an input with an element 0 and a negative element,
\* and handed the nonzero gradient through at the 0
C11_Witness ==
  /\ op = "frog_relu" /\ pc = "done"
  /\ \E e, f \in 1..Len(args[1].data) :
       /\ args[1].data[e] = 0 /\ grad_output.data[e] # 0
       /\ grads[1].data[e] = grad_output.data[e]
       /\ args[1].data[f] < 0 /\ grads[1].data[f] = 0

-----------------------------------------------------------------------------
(* Pad2D (src/froog/ops.py) *)

\* padding=None, the default of forward
NoPadding == <<>>

\* np.pad(x, ((0,0), (0,0), (top, bottom), (left, right))): zeros around the
\* last two axes
NpPad(x, top, bottom, left, right) ==
  Mk4(<<x.shape[1], x.shape[2], x.shape[3] + top + bottom, x.shape[4] + left + right>>,
      LAMBDA n, c, y, xx :
        IF /\ y >= top /\ y < top + x.shape[3]
           /\ xx >= left /\ xx < left + x.shape[4]
        THEN At4(x, n, c, y - top, xx - left)
        ELSE 0)

\* Pad2D.forward(ctx, x, padding): [raised, ret]; padding[0] of None raises
Pad2D_forward(c, x, padding) ==
  IF padding = NoPadding
  THEN [raised |-> TRUE, ret |-> NoTensor]
  ELSE [raised |-> FALSE,
        ret |-> NpPad(x, padding[1], padding[2], padding[3], padding[4])]

\* a backward that hands grad_output on as the gradient
Pad2D_backward_PassThrough(c, go) == [raised |-> FALSE, grads |-> <<go>>]

\* Pad2D.backward(ctx, grad_output): [raised, grads]; raise Exception("write this")
Pad2D_backward(c, go) == [raised |-> TRUE, grads |-> <<>>]

\* the amounts of padding on one side
PadAmounts == 0..1

InitPad ==
  \E H \in 1..MaxHW, W \in 1..MaxHW :
    \E padding \in {NoPadding} \cup
                   {<<t, b, l, r>> : t \in PadAmounts, b \in PadAmounts,
                                     l \in PadAmounts, r \in PadAmounts} :
      /\ op = "pad2d"
      /\ args = <<Iota(<<1, 1, H, W>>), padding>>
      /\ ctx = PlainCtx
      /\ ret = NoTensor
      /\ grad_output = NoTensor
      /\ grads = <<>>
      /\ pc = "ready"
      /\ heap = <<>>

Pad2DForward ==
  /\ pc = "ready" /\ op = "pad2d"
  /\ LET r == Pad2D_forward(ctx, args[1], args[2])
     IN /\ ret' = r.ret
        /\ pc' = IF r.raised THEN "raised" ELSE "forwarded"
  /\ UNCHANGED <<op, args, ctx, grad_output, grads, heap>>

Pad2DBackward ==
  /\ pc = "forwarded" /\ op = "pad2d"
  /\ \E go \in {Ones(ret.shape), Iota(ret.shape)} :
       LET r == Pad2D_backward(ctx, go)
       IN /\ grad_output' = go
          /\ grads' = r.grads
          /\ pc' = IF r.raised THEN "backward_raised" ELSE "done"
  /\ UNCHANGED <<op, args, ctx, ret, heap>>

NextPad == Pad2DForward \/ Pad2DBackward

SpecPad == InitPad /\ [][NextPad]_vars

\* C12: Pad2D.backward never returns a gradient: for every grad_output the call
\* ends in an error, so no gradient for the padded input is ever delivered.
C12_PadBackwardRaises ==
  op = "pad2d" =>
    /\ pc # "done"
    /\ grads = <<>>
    /\ grad_output # NoTensor => pc = "backward_raised"

\* backward was called on the gradient of a really padded output, and raised
C12_Witness ==
  /\ op = "pad2d" /\ pc = "backward_raised"
  /\ grad_output.shape = ret.shape
  /\ Prod(ret.shape) > Prod(args[1].shape)
  /\ grads = <<>>

-----------------------------------------------------------------------------
(* The gradient buffers of Add, Sub and Mul by identity.  Python hands numpy   *)
(* arrays around by reference: `return grad_output, grad_output` returns one   *)
(* array twice, while -grad_output and y * grad_output build new arrays.  In   *)
(* this section grad_output and the elements of grads are identities of        *)
(* buffers, indices into heap, and 0 is no buffer.                             *)

\* Add.backward(ctx, grad_output) of both files: return grad_output, grad_output
Add_backward(h, c, go) == [heap |-> h, grads |-> <<go, go>>]

\* Sub.backward(ctx, grad_output): return grad_output, -grad_output
Sub_backward(h, c, go) ==
  [heap |-> Append(h, Neg(h[go])), grads |-> <<go, Len(h) + 1>>]

\* Mul.backward(ctx, grad_output): return y * grad_output, x * grad_output
Mul_backward(h, c, go) ==
  [heap  |-> h \o <<Ufunc("mul", c.saved_tensors[2], h[go]).ret,
                    Ufunc("mul", c.saved_tensors[1], h[go]).ret>>,
   grads |-> <<Len(h) + 1, Len(h) + 2>>]

\* the backward rule of an op name
BackwardOf(o, h, c, go) ==
  CASE o \in {"add", "frog_add"} -> Add_backward(h, c, go)
    [] o = "sub" -> Sub_backward(h, c, go)
    [] o = "mul" -> Mul_backward(h, c, go)

GradOps == {"add", "sub", "mul", "frog_add"}

\* a += b on numpy arrays: the array a itself gets the sum
InPlaceAdd(a, b) == Ufunc("add", a, b).ret

InitGrad ==
  \E o \in GradOps : \E n \in 1..MaxDim :
    \E x \in BuffersOver(<<n>>, 1..2), y \in BuffersOver(<<n>>, 1..2) :
      /\ op = o
      /\ args = <<x, y>>
      /\ ctx = PlainCtx
      /\ ret = NoTensor
      /\ grad_output = 0
      /\ grads = <<>>
      /\ pc = "ready"
      /\ heap = <<>>

GradForward ==
  /\ pc = "ready" /\ op \in GradOps
  /\ LET r == Binary_forward(UfuncOf(op), ctx, args[1], args[2])
     IN ctx' = r.ctx /\ ret' = r.ret
  /\ pc' = "forwarded"
  /\ UNCHANGED <<op, args, grad_output, grads, heap>>

\* backward on a seed gradient of ones, a new buffer
GradBackward ==
  /\ pc = "forwarded" /\ op \in GradOps
  /\ LET r == BackwardOf(op, <<Ones(ret.shape)>>, ctx, 1)
     IN /\ grad_output' = 1
        /\ heap' = r.heap
        /\ grads' = r.grads
  /\ pc' = "done"
  /\ UNCHANGED <<op, args, ctx, ret>>

\* the backward engine's accumulation into the grad of input i, which holds the
\* buffer backward returned for it: grad += contribution
Accumulate ==
  /\ pc = "done" /\ op \in GradOps
  /\ \E i \in 1..Len(grads) :
       \E contribution \in {Ones(ret.shape), Iota(ret.shape)} :
         heap' = [heap EXCEPT ![grads[i]] = InPlaceAdd(@, contribution)]
  /\ pc' = "accumulated"
  /\ UNCHANGED <<op, args, ctx, ret, grad_output, grads>>

NextGrad == GradForward \/ GradBackward \/ Accumulate

SpecGrad == InitGrad /\ [][NextGrad]_vars

\* the values backward returned on the seed of ones, by the rule on values
ReturnedValues == Binary_backward(UfuncOf(op), ctx, Ones(ret.shape)).grads

\* which of the grads of x, of y and of the output no longer hold the value
\* they were given
ChangedGrads ==
  {i \in 1..2 : heap[grads[i]] # ReturnedValues[i]}
  \cup {k \in {3} : heap[grad_output] # Ones(ret.shape)}

\* C13: the gradients one backward rule returns for its inputs are distinct
\* buffers and none of them is the grad_output buffer, so that an in-place
\* accumulation into the grad of one Tensor changes the grad of no other Tensor
\* and not the grad of the output; in particular for Add and Sub.
C13_GradBuffersOwned ==
  (op \in GradOps /\ pc \in {"done", "accumulated"}) =>
    /\ grads[1] # grads[2]
    /\ \A i \in 1..2 : grads[i] # grad_output
    /\ pc = "accumulated" => Cardinality(ChangedGrads) <= 1

\* Mul.backward, which builds both gradients, keeps the property: after an
\* accumulation exactly one grad has changed
C13_MulOwned ==
  (op = "mul" /\ pc \in {"done", "accumulated"}) =>
    /\ grads[1] # grads[2]
    /\ \A i \in 1..2 : grads[i] # grad_output
    /\ pc = "accumulated" => Cardinality(ChangedGrads) = 1

\* an accumulation into the grad of one input of Add has changed all three grads
C13_AddAliased ==
  ~(op \in {"add", "frog_add"} /\ pc = "accumulated" /\ Cardinality(ChangedGrads) = 3)

-----------------------------------------------------------------------------
(* frog Conv2D: the plain convolution of src/frog/ops.py, without stride and   *)
(* groups, next to froog Conv2D called with stride=1 and groups=1              *)

\* tx = input_image[:, :, Y:Y+H, X:X+W].reshape(input_image.shape[0], -1)
frog_ConvTx(x, w, Y, X) ==
  ReshapeRows(Slice4(x, 0, x.shape[1], 0, x.shape[2],
                     Y, Y + w.shape[3], X, X + w.shape[4]), x.shape[1])

\* conv_to_return[:, :, Y, X] = m
frog_ConvRetAssign(r, m, Y, X) ==
  Mk4(r.shape, LAMBDA n, c, y, x :
        IF y = Y /\ x = X THEN At2(m, n, c) ELSE At4(r, n, c, y, x))

RECURSIVE frog_ConvFwdLoop(_, _, _, _, _)
\* the first i iterations of: for Y in range(shape[2]): for X in range(shape[3])
frog_ConvFwdLoop(r, x, w, tw, i) ==
  IF i = 0 THEN r
  ELSE LET Y == (i - 1) \div r.shape[4]
           X == (i - 1) % r.shape[4]
       IN frog_ConvRetAssign(frog_ConvFwdLoop(r, x, w, tw, i - 1),
                             Dot2(frog_ConvTx(x, w, Y, X), tw), Y, X)

\* frog Conv2D.forward(ctx, input_image, conv_kernel): [ctx, ret]
frog_Conv2D_forward(c, input_image, conv_kernel) ==
  LET cout == conv_kernel.shape[1]
      H    == conv_kernel.shape[3]
      W    == conv_kernel.shape[4]
      conv_to_return == Zeros(<<input_image.shape[1], cout,
                                input_image.shape[3] - (H - 1),
                                input_image.shape[4] - (W - 1)>>)
      tw   == Transpose(ReshapeRows(conv_kernel, cout))
  IN [ctx |-> save_for_backward(c, <<input_image, conv_kernel>>),
      ret |-> frog_ConvFwdLoop(conv_to_return, input_image, conv_kernel, tw,
                               conv_to_return.shape[3] * conv_to_return.shape[4])]

\* dw += m.reshape(dw.shape)
frog_ConvDwAdd(dw, m) ==
  Mk4(dw.shape, LAMBDA o, c, y, x :
        At4(dw, o, c, y, x) + At4(Reshape(m, dw.shape), o, c, y, x))

\* dx[:, :, Y:Y+H, X:X+W] = m.reshape(dx.shape[0], dx.shape[1], H, W)
frog_ConvDxAssign(dx, m, H, W, Y, X) ==
  Mk4(dx.shape, LAMBDA n, c, y, x :
        IF y >= Y /\ y < Y + H /\ x >= X /\ x < X + W
        THEN At4(Reshape(m, <<dx.shape[1], dx.shape[2], H, W>>), n, c, y - Y, x - X)
        ELSE At4(dx, n, c, y, x))
\* dx[:, :, Y:Y+H, X:X+W] += m.reshape(dx.shape[0], dx.shape[1], H, W)
frog_ConvDxAdd(dx, m, H, W, Y, X) ==
  Mk4(dx.shape, LAMBDA n, c, y, x :
        At4(dx, n, c, y, x)
        + (IF y >= Y /\ y < Y + H /\ x >= X /\ x < X + W
           THEN At4(Reshape(m, <<dx.shape[1], dx.shape[2], H, W>>), n, c, y - Y, x - X)
           ELSE 0))

\* gg = grad_output[:, :, Y, X]
frog_ConvGg(go, Y, X) ==
  Mk2(go.shape[1], go.shape[2], LAMBDA n, j : At4(go, n, j, Y, X))

RECURSIVE frog_ConvBwdLoop(_, _, _, _, _, _)
\* the first i iterations of backward's loop over (Y, X), on the pair <<dx, dw>>
frog_ConvBwdLoop(d, go, x, w, tw, i) ==
  IF i = 0 THEN d
  ELSE LET Y    == (i - 1) \div go.shape[4]
           X    == (i - 1) % go.shape[4]
           prev == frog_ConvBwdLoop(d, go, x, w, tw, i - 1)
           gg   == frog_ConvGg(go, Y, X)
           tx   == frog_ConvTx(x, w, Y, X)
       IN <<frog_ConvDxAdd(prev[1], Dot2(gg, tw), w.shape[3], w.shape[4], Y, X),
            frog_ConvDwAdd(prev[2], Dot2(Transpose(gg), tx))>>

\* frog Conv2D.backward(ctx, grad_output): <<dx, dw>>
frog_Conv2D_backward(c, go) ==
  LET x           == c.saved_tensors[1]
      conv_kernel == c.saved_tensors[2]
      tw          == ReshapeRows(conv_kernel, conv_kernel.shape[1])
  IN frog_ConvBwdLoop(<<Zeros(x.shape), Zeros(conv_kernel.shape)>>, go, x, conv_kernel,
                      tw, go.shape[3] * go.shape[4])

frogConvStart(x, w) ==
  /\ op = "frog_conv2d"
  /\ args = <<x, w>>
  /\ ctx = PlainCtx
  /\ ret = NoTensor
  /\ grad_output = NoTensor
  /\ grads = <<>>
  /\ pc = "ready"
  /\ heap = <<>>

\* the same call to both: a batch of two images of distinct elements under a
\* kernel of distinct elements, one such image under a basis kernel, and a basis
\* image under a kernel of distinct elements; the input channels of image and
\* kernel agree, and the kernel has more than one element
InitConvEq ==
  \E cin \in Channels, cout \in Channels, KH \in KernelSizes, KW \in KernelSizes :
    /\ KH + KW > 2
    /\ \E xw \in {<<Iota(<<2, cin, MaxHW, MaxHW - 1>>), Iota(<<cout, cin, KH, KW>>)>>}
                 \cup {<<Iota(<<1, cin, MaxHW, MaxHW - 1>>), w>> :
                         w \in Units(<<cout, cin, KH, KW>>)}
                 \cup {<<x, Iota(<<cout, cin, KH, KW>>)>> :
                         x \in Units(<<1, cin, MaxHW, MaxHW - 1>>)} :
         \/ ConvStart(xw[1], xw[2], IntStride(1), 1)
         \/ frogConvStart(xw[1], xw[2])

frogConv2DForward ==
  /\ pc = "ready" /\ op = "frog_conv2d"
  /\ LET r == frog_Conv2D_forward(ctx, args[1], args[2])
     IN ctx' = r.ctx /\ ret' = r.ret
  /\ pc' = "forwarded"
  /\ UNCHANGED <<op, args, grad_output, grads, heap>>

frogConv2DBackward ==
  /\ pc = "forwarded" /\ op = "frog_conv2d"
  /\ \E go \in GradInputs(ret.shape) :
       /\ grad_output' = go
       /\ grads' = frog_Conv2D_backward(ctx, go)
  /\ pc' = "done"
  /\ UNCHANGED <<op, args, ctx, ret, heap>>

NextConvEq == Conv2DForward \/ Conv2DBackward \/ frogConv2DForward \/ frogConv2DBackward

SpecConvEq == InitConvEq /\ [][NextConvEq]_vars

\* what the other Conv2D returns for the call of the state: froog's with
\* stride=1, groups=1 for a call of frog's, and frog's for a call of froog's
OtherForward ==
  IF op = "frog_conv2d"
  THEN LET r == Conv2D_forward(ConvCtx(IntStride(1), 1), args[1], args[2])
       IN [ctx |-> r.ctx, ret |-> r.ret]
  ELSE frog_Conv2D_forward(PlainCtx, args[1], args[2])

OtherBackward ==
  IF op = "frog_conv2d"
  THEN Conv2D_backward(OtherForward.ctx, grad_output)
  ELSE frog_Conv2D_backward(OtherForward.ctx, grad_output)

\* C14: froog's Conv2D called with stride=1 and groups=1 and frog's Conv2D return,
\* for the same input, kernel and grad_output of compatible shapes, the same
\* forward output and the same (dx, dw) from backward.
C14_ConvEquivalent ==
  (op \in {"conv2d", "frog_conv2d"} /\ pc \in {"forwarded", "done"}) =>
    /\ ret = OtherForward.ret
    /\ pc = "done" => grads = OtherBackward

\* frog's backward has run where windows overlap and returned non-zero dx and dw
C14_Witness ==
  /\ op = "frog_conv2d" /\ pc = "done"
  /\ args[2].shape[3] > 1 /\ ret.shape[3] > 1
  /\ args[1].shape[2] > 1 /\ args[2].shape[1] > 1
  /\ \E e \in 1..Len(grads[1].data) : grads[1].data[e] # 0
  /\ \E e \in 1..Len(grads[2].data) : grads[2].data[e] # 0
  /\ grads = OtherBackward

====
